---- MODULE Spec2Model ----
(***************************************************************************)
(* A model of the publishing orchestrator of toutiao-auto-publisher:       *)
(*   - process_hot_searches (src/ai_analyzer.py) and publish_directory     *)
(*     (src/publisher.py), the two loops that drive ToutiaoPublisher;      *)
(*   - ToutiaoPublisher.publish and its steps (src/publisher.py);          *)
(*   - the published-record file (load/save_published_record);             *)
(*   - find_element_with_cache and the selector cache (src/publisher.py).  *)
(*                                                                         *)
(* Spec is the orchestrator with publish() run step by step; there the     *)
(* result of each find_element_with_cache call is an input (found or       *)
(* None), which is every result the resolver can give whatever its cache   *)
(* holds.  SpecResolver is the resolver itself, with its cache and file.   *)
(* SpecSession is the browser session of one run, SpecStore the record     *)
(* file shared by two invocations, SpecAdd save_published_record on the    *)
(* JSON value of the file, SpecExtract extract_title_and_content.          *)
(***************************************************************************)
EXTENDS Integers, Sequences, FiniteSets, TLC

\* Bounds of the model.
MaxBatch == 2
MaxStartBatch == 3
MaxPublishes == 2
MaxRecords == 2
MaxAdds == 2
MaxLines == 3

\* src/ai_analyzer.py:297 and src/publisher.py:557
max_retries == 3

None == "none"
Range(q) == { q[i] : i \in DOMAIN q }
Urls == {"u1", "u2"}

\* A work item of the batch: item.get("url"), item.get("title"); either may
\* be missing.  In publish_directory an item is a file: url is its path and
\* title is None when extract_article returns None.
Items(m) ==
  { [url |-> "u1", title |-> "t"], [url |-> "u2", title |-> "t"],
    IF m = "hot" THEN [url |-> None, title |-> "t"]
                 ELSE [url |-> "u1", title |-> None] }

BatchesUpTo(m, k) == UNION { [1..n -> Items(m)] : n \in 0..k }
Batches(m) == BatchesUpTo(m, MaxBatch)

\* The batch limit: 0 is None (no limit).
Limits == 0..(MaxBatch - 1)

NoCover == <<>>
\* The cover files that finished items and earlier runs left on disk.
OldCover == <<0, 0>>

VARIABLES
  mode,            \* "hot": process_hot_searches, "dir": publish_directory
  batch,           \* the input batch (hot searches, or article files)
  limit,           \* limit parameter
  skip_published,  \* resume mode
  cover_mode,      \* "generate" or "none"
  publisher,       \* TRUE when process_hot_searches is given a publisher
  recordFile,      \* published_articles.json: [kind, urls]
  file0,           \* the urls in that file before the first run
  coverFiles,      \* cover image files on disk, each <<idx, call>>
  run,             \* "first" invocation of the program, or a "later" one
  prevPublished,   \* urls whose publish returned normally in an earlier run
  pc,              \* position of the orchestrator
  outcome,         \* "running", "returned" or "raised"
  published_urls,  \* process_hot_searches: the loaded record set
  filtered,        \* hot_searches after the resume filter (line 234)
  queue,           \* hot_searches / files the loop iterates
  idx,             \* index of the current item in queue
  attempt,         \* calls of generate_cover_image for the current item
  cover_path,      \* cover_path of the current item
  cover_generated, \* cover_generated of the current item
  drafted,         \* indices whose text was generated and (line 292) rendered
  exhausted,       \* indices skipped because cover generation was exhausted
  steps,           \* steps of the current publish() call, in order
  pubCover,        \* cover_path argument of the current publish() call
  uploads,         \* send_keys of the cover path in the current publish()
  noCoverTried,    \* _ensure_no_cover_mode ran in the current publish()
  raisedAt,        \* the step of the current publish() that raised, or None
  previewMissing,  \* indices whose preview button no locator resolved
  pubCalled,       \* indices for which publish() was called in this run
  publishedOK,     \* indices whose publish() returned normally in this run
  recorded,        \* indices whose url was written to the record file
  visited,         \* indices the loop has started
  slept,           \* the publish delay was slept since the last publish()
  selector_cache,  \* ToutiaoPublisher.selector_cache: role key -> locator
  cacheFile,       \* selector_cache.json: role key -> locator
  lastCall,        \* the last find_element_with_cache call and its result
  observed,        \* locators seen to resolve since the publisher was built
  foreign,         \* keys whose file entry another invocation wrote since then
  lastWait,        \* the last wait.until lookup of _fill_title/_fill_content
  entry,           \* entry point: main.py "publish" or "full", publisher.py "dir"
  spc,             \* position of the run in its browser session
  driver,          \* ToutiaoPublisher.driver: None or the webdriver
  started,         \* browsers started in this run
  quits,           \* calls of driver.quit() in this run
  cleanups,        \* calls of ToutiaoPublisher.cleanup() in this run
  logged_in,       \* ToutiaoPublisher._logged_in
  unauth,          \* the page was the login page after the cookies were set
  failed,          \* an exception is on its way out of the with block
  publishes,       \* publish() calls of the orchestrator in this session
  exitStatus,      \* exit status of the program, None while it runs
  savers,          \* the save_published_record calls of two invocations
  recordsArray,    \* published_articles.json as the JSON value it holds
  addLog,          \* the save_published_record calls made on recordsArray
  article_text,    \* the text call_deepseek_api returned, as characters
  extraction       \* what extract_title_and_content returned for it

config == <<mode, batch, limit, skip_published, cover_mode, publisher, file0>>
files == <<recordFile, coverFiles>>
loopv == <<published_urls, filtered, queue>>
itemv == <<attempt, cover_path, cover_generated, steps, pubCover, uploads,
           noCoverTried, raisedAt>>
loopHist == <<visited, drafted, exhausted>>
pubHist == <<pubCalled, publishedOK, recorded, slept, previewMissing>>
hist == <<loopHist, pubHist>>
orch == <<config, files, run, prevPublished, pc, outcome, loopv, idx, itemv,
          hist>>
resolver == <<selector_cache, cacheFile, lastCall, observed, foreign,
              lastWait>>
session == <<entry, spc, driver, started, quits, cleanups, logged_in, unauth,
             failed, publishes, exitStatus>>
adder == <<recordsArray, addLog>>
extractor == <<article_text, extraction>>
notOrch == <<resolver, session, savers, adder, extractor>>
notResolver == <<orch, session, savers, adder, extractor>>
notSession == <<orch, resolver, savers, adder, extractor>>
notStore == <<mode, batch, limit, skip_published, cover_mode, publisher, file0,
              coverFiles, run, prevPublished, pc, outcome, loopv, idx, itemv,
              hist, resolver, session, adder, extractor>>
notAdder == <<orch, resolver, session, savers, extractor>>
notExtractor == <<orch, resolver, session, savers, adder>>
vars == <<orch, resolver, session, savers, adder, extractor>>

----------------------------------------------------------------------------
\* The published-record file.  kind "array": a JSON array of strings;
\* "object": {"urls": [...]}; "invalid": not JSON, or JSON of another
\* shape; "missing": no file; "raising": content on which json.load or
\* set() raises an error that load_published_records does not catch
\* (an array holding objects: TypeError; bytes that are not UTF-8:
\* UnicodeDecodeError).
RecordKinds == {"missing", "array", "object", "invalid", "raising"}

\* load_published_records raises (lines 147-152 under the except of 156).
LoadRaises(file, ioOk) == ioOk /\ file.kind = "raising"

\* load_published_records: the set it returns when it does not raise.
\* ioOk = FALSE is an OSError on open/read.
load_published_records(file, ioOk) ==
  IF file.kind = "missing" THEN {}
  ELSE IF ~ioOk THEN {}
  ELSE IF file.kind \in {"array", "object"} THEN file.urls
  ELSE {}

\* Lines 171-176: the file after json.dump(list(published)).  writeOk =
\* FALSE is an OSError on open(..., "w"), caught and logged.
Written(published, file, writeOk) ==
  IF writeOk THEN [kind |-> "array", urls |-> published] ELSE file

\* save_published_record: the file after the call (when load does not
\* raise).
save_published_record(url, file, ioOk, writeOk) ==
  Written(load_published_records(file, ioOk) \cup {url}, file, writeOk)

\* Mutant of FilterPublished: the test is inverted (in for not in).
FilterPublishedInverted(items, recs) ==
  SelectSeq(items, LAMBDA it : it.url \in recs)

\* Lines 232-234: the items whose url is not in published_urls, in order.
RECURSIVE FilterPublished(_, _)
FilterPublished(items, recs) ==
  IF items = <<>> THEN <<>>
  ELSE IF Head(items).url \notin recs
    THEN <<Head(items)>> \o FilterPublished(Tail(items), recs)
    ELSE FilterPublished(Tail(items), recs)

\* Lines 241-242 (and publisher.py 536-537): hot_searches[:limit].
ApplyLimit(items, lim) ==
  IF lim # 0 THEN SubSeq(items, 1, IF lim < Len(items) THEN lim ELSE Len(items))
  ELSE items

\* The invocations whose save_published_record calls share the file, and
\* the urls they add.
Savers == {1, 2}
SaverUrls == {"u2", "u3"}
Idle == [pc |-> "idle"]

\* No save_published_record call is under way step by step.
StoreIdle == savers = [i \in Savers |-> Idle]

\* No save_published_record call is followed on the JSON value of the file.
AdderIdle == recordsArray = [kind |-> "array", items |-> <<>>] /\ addLog = <<>>

\* No generated text is being split into title and body.
NoExtraction == [title |-> None]
ExtractorIdle == article_text = <<>> /\ extraction = NoExtraction

Reset ==
  /\ published_urls = {} /\ filtered = <<>> /\ queue = <<>> /\ idx = 0
  /\ attempt = 0 /\ cover_path = NoCover /\ cover_generated = FALSE
  /\ exhausted = {} /\ visited = {} /\ drafted = {}
  /\ steps = <<>> /\ pubCover = NoCover /\ uploads = 0
  /\ noCoverTried = FALSE /\ raisedAt = None
  /\ pubCalled = {} /\ publishedOK = {} /\ recorded = {} /\ slept = FALSE
  /\ previewMissing = {}

\* The same values, for a new process.
Cleared ==
  /\ published_urls' = {} /\ filtered' = <<>> /\ queue' = <<>> /\ idx' = 0
  /\ attempt' = 0 /\ cover_path' = NoCover /\ cover_generated' = FALSE
  /\ exhausted' = {} /\ visited' = {} /\ drafted' = {}
  /\ steps' = <<>> /\ pubCover' = NoCover /\ uploads' = 0
  /\ noCoverTried' = FALSE /\ raisedAt' = None
  /\ pubCalled' = {} /\ publishedOK' = {} /\ recorded' = {} /\ slept' = FALSE
  /\ previewMissing' = {}

----------------------------------------------------------------------------
\* The selector cache and find_element_with_cache.

\* Two of the role keys and their candidate lists, in order
\* (publisher.py 324-327 and 463-467).
Roles == {"single_cover_mode", "preview_publish_btn"}
Candidates(key) ==
  IF key = "single_cover_mode" THEN <<"s1", "s2">> ELSE <<"p1", "p2", "p3">>

\* A value that is none of the candidates: a locator of an older version
\* of the program, or a JSON value that is not a string.
Stale == "old"

\* What a cache (in memory or on file) may hold for a key; None: no entry.
CacheValues(key) == { Candidates(key)[i] : i \in DOMAIN Candidates(key) }
                      \cup {Stale, None}
Caches == { c \in [Roles -> {"s1", "s2", "p1", "p2", "p3", Stale, None}] :
              \A k \in Roles : c[k] \in CacheValues(k) }
EmptyCache == [k \in Roles |-> None]

\* A cache file that json.load turns into a list or a string (a JSON array
\* or string), which has no get: no key can be looked up in it.
NotADict == [k \in Roles |-> "not a dict"]

\* A cache file that is missing, unreadable, not JSON, or a JSON number,
\* boolean or null (len(cache) raises inside the try of line 119).
Unreadable == [k \in Roles |-> "unreadable"]

CacheFiles == Caches \cup {NotADict, Unreadable}

NoCall == [key |-> None]
NoWait == [field |-> None]

\* The first index of sels whose locator is in dom, or 0.
FirstResolving(sels, dom) ==
  IF \E i \in DOMAIN sels : sels[i] \in dom
    THEN CHOOSE i \in DOMAIN sels :
           sels[i] \in dom /\ \A j \in DOMAIN sels : sels[j] \in dom => i <= j
    ELSE 0

\* Mutant of FindResult: a cache hit is recorded again (the cache and the
\* file are written on the hit path too).
FindResultRewrites(cache, key, sels, hit, dom) ==
  LET cached == cache[key]
      usable == cached # None /\ \E i \in DOMAIN sels : sels[i] = cached
      first == FirstResolving(sels, dom)
      pre == IF usable THEN <<cached>> ELSE <<>>
  IN IF usable /\ hit
       THEN [found |-> cached, probes |-> <<cached>>, write |-> TRUE]
     ELSE IF first = 0
       THEN [found |-> None, probes |-> pre \o sels, write |-> FALSE]
     ELSE [found |-> sels[first], probes |-> pre \o SubSeq(sels, 1, first),
           write |-> TRUE]

\* Mutant of FindResult: a stale entry is ignored but not replaced (the
\* locator that resolved is returned without being recorded).
FindResultNoHeal(cache, key, sels, hit, dom) ==
  LET cached == cache[key]
      usable == cached # None /\ \E i \in DOMAIN sels : sels[i] = cached
      first == FirstResolving(sels, dom)
      pre == IF usable THEN <<cached>> ELSE <<>>
  IN IF usable /\ hit
       THEN [found |-> cached, probes |-> <<cached>>, write |-> FALSE]
     ELSE IF first = 0
       THEN [found |-> None, probes |-> pre \o sels, write |-> FALSE]
     ELSE [found |-> sels[first], probes |-> pre \o SubSeq(sels, 1, first),
           write |-> ~usable]

\* find_element_with_cache, lines 152-190: the locator returned (None when
\* none resolves), the locators probed in order, and whether lines 181-182
\* ran.  hit: the cached locator resolves when probed (lines 155-166);
\* dom: the candidates that resolve when the loop probes them (171-179).
FindResult(cache, key, sels, hit, dom) ==
  LET cached == cache[key]
      usable == cached # None /\ \E i \in DOMAIN sels : sels[i] = cached
      first == FirstResolving(sels, dom)
      pre == IF usable THEN <<cached>> ELSE <<>>
  IN IF usable /\ hit
       THEN [found |-> cached, probes |-> <<cached>>, write |-> FALSE]
     ELSE IF first = 0
       THEN [found |-> None, probes |-> pre \o sels, write |-> FALSE]
     ELSE [found |-> sels[first], probes |-> pre \o SubSeq(sels, 1, first),
           write |-> TRUE]

\* The inputs of a call that say something: the cached locator is probed
\* (hit) only when it is a candidate, the loop probes (dom) only when that
\* probe did not return, and the file is written only when a candidate of
\* the loop resolved.
Probed(cache, key, hit, dom, writeOk) ==
  /\ hit => \E i \in DOMAIN Candidates(key) : Candidates(key)[i] = cache[key]
  /\ (hit \/ cache = NotADict) => dom = {}
  /\ ~writeOk => dom # {}

\* Mutant of Record: the head of the candidate list is recorded, not the
\* candidate that resolved.
RecordHead(cache, key, r) ==
  IF r.write THEN [cache EXCEPT ![key] = Candidates(key)[1]] ELSE cache

\* Line 181, cache[cache_key] = selector: the cache after the call.
Record(cache, key, r) ==
  IF r.write THEN [cache EXCEPT ![key] = r.found] ELSE cache

\* load_selector_cache, lines 116-126: whatever json.load returns, {} when
\* the file is missing or the try raises.
load_selector_cache(file) ==
  IF file = Unreadable THEN EmptyCache ELSE file

\* The resolver at rest, in the specifications that do not run it.
ResolverIdle ==
  /\ selector_cache = EmptyCache /\ cacheFile = EmptyCache
  /\ lastCall = NoCall /\ observed = {} /\ foreign = {}
  /\ lastWait = NoWait

\* The browser session at rest, in the specifications that do not run it.
SessionIdle ==
  /\ entry = "publish" /\ spc = "done" /\ driver = None
  /\ started = 0 /\ quits = 0 /\ cleanups = 0
  /\ logged_in = FALSE /\ unauth = FALSE /\ failed = FALSE
  /\ publishes = 0 /\ exitStatus = 0

\* A first invocation: the parameters, the files, a new process.
InitWith(batches, limits) ==
  /\ mode \in {"hot", "dir"}
  /\ batch \in batches[mode]
  /\ limit \in limits
  /\ cover_mode \in {"generate", "none"}
  /\ IF mode = "hot"
       THEN /\ skip_published \in BOOLEAN
            /\ publisher \in BOOLEAN
            /\ publisher = FALSE => cover_mode = "generate"
            /\ recordFile \in
                 [kind : {"array"}, urls : SUBSET Urls]
                   \cup {[kind |-> "raising", urls |-> {}]}
       ELSE /\ skip_published = FALSE
            /\ publisher = TRUE
            /\ recordFile = [kind |-> "missing", urls |-> {}]
  /\ file0 = recordFile.urls
  /\ coverFiles = {}
  /\ run = "first"
  /\ prevPublished = {}
  /\ pc = "start"
  /\ outcome = "running"
  /\ Reset
  /\ ResolverIdle
  /\ SessionIdle
  /\ StoreIdle
  /\ AdderIdle
  /\ ExtractorIdle

Init == InitWith([m \in {"hot", "dir"} |-> Batches(m)], Limits)

----------------------------------------------------------------------------
\* The orchestrators.

Finish(how) ==
  /\ outcome' = how
  /\ pc' = "end"

Goto(p) ==
  /\ pc' = p
  /\ outcome' = outcome

\* Mutant of Raise: the record is saved on the way out of a failed publish
\* (as a finally clause would).
RaiseThenRecord(step) ==
  /\ Goto("record")
  /\ raisedAt' = step

\* An exception raised inside the try of the caller (ai_analyzer.py 358,
\* publisher.py 604).
Raise(step) ==
  /\ Goto("except")
  /\ raisedAt' = step

\* The locals of one pass of the loop, as the next pass finds them.
ClearItem ==
  /\ attempt' = 0 /\ cover_path' = NoCover /\ cover_generated' = FALSE
  /\ steps' = <<>> /\ pubCover' = NoCover /\ uploads' = 0
  /\ noCoverTried' = FALSE /\ raisedAt' = None

\* The cover files on disk once an item is done with: the files left
\* behind by finished items are not told apart.
Leftover(fs) == IF fs = {} THEN {} ELSE {OldCover}

\* continue: on to the next item of the loop.
NextItem ==
  /\ idx' = idx + 1
  /\ Goto("item")
  /\ ClearItem
  /\ coverFiles' = Leftover(coverFiles)

\* Mutant of StartHot: the limit is applied to the batch before the resume
\* filter.
StartHotLimitFirst ==
  /\ pc = "start" /\ mode = "hot"
  /\ UNCHANGED notOrch
  /\ \E ioOk \in BOOLEAN :
       IF batch = <<>>
         THEN /\ Finish("returned")
              /\ UNCHANGED <<loopv, idx>>
         ELSE IF skip_published /\ LoadRaises(recordFile, ioOk)
         THEN /\ Finish("raised")
              /\ UNCHANGED <<loopv, idx>>
         ELSE LET recs == IF skip_published
                            THEN load_published_records(recordFile, ioOk)
                            ELSE {}
                  q == IF skip_published /\ recs # {}
                         THEN FilterPublished(ApplyLimit(batch, limit), recs)
                         ELSE ApplyLimit(batch, limit)
              IN /\ published_urls' = recs
                 /\ filtered' = q
                 /\ queue' = q
                 /\ idx' = 1
                 /\ IF q = <<>> THEN Finish("returned") ELSE Goto("item")
  /\ UNCHANGED <<config, files, run, prevPublished, itemv, hist>>

\* process_hot_searches, lines 218-267: load, resume filter, limit.
StartHot ==
  /\ pc = "start" /\ mode = "hot"
  /\ UNCHANGED notOrch
  /\ \E ioOk \in BOOLEAN :
       IF batch = <<>>
         THEN /\ Finish("returned")
              /\ UNCHANGED <<loopv, idx>>
         ELSE IF skip_published /\ LoadRaises(recordFile, ioOk)
         THEN /\ Finish("raised")
              /\ UNCHANGED <<loopv, idx>>
         ELSE LET recs == IF skip_published
                            THEN load_published_records(recordFile, ioOk)
                            ELSE {}
                  f == IF skip_published /\ recs # {}
                         THEN FilterPublished(batch, recs)
                         ELSE batch
                  q == ApplyLimit(f, limit)
              IN /\ published_urls' = recs
                 /\ filtered' = f
                 /\ queue' = q
                 /\ idx' = 1
                 /\ IF q = <<>> THEN Finish("returned") ELSE Goto("item")
  /\ UNCHANGED <<config, files, run, prevPublished, itemv, hist>>

\* publish_directory, lines 535-545: list, limit, cookies, browser, login.
StartDir ==
  /\ pc = "start" /\ mode = "dir"
  /\ UNCHANGED notOrch
  /\ \E setupOk \in BOOLEAN :
       LET q == ApplyLimit(batch, limit)
       IN /\ queue' = q
          /\ filtered' = batch
          /\ idx' = 1
          /\ IF q = <<>> THEN Finish("returned")
             ELSE IF ~setupOk THEN Finish("raised")
             ELSE Goto("item")
  /\ UNCHANGED <<config, files, run, prevPublished, published_urls, itemv,
                 hist>>

\* Lines 293-298: the branch that publishes, up to the cover loop.
EnterPublishBranch ==
  /\ drafted' = drafted \cup {idx}
  /\ Goto(IF cover_mode = "generate" THEN "cover" ELSE "publish")
  /\ UNCHANGED <<idx, itemv, exhausted, coverFiles>>

\* process_hot_searches, lines 269-296 and 360-365: one item up to the
\* cover loop.  gen is generate_article_draft: "ok" a body, "empty" no
\* body, "raises" an error call_deepseek_api does not catch (line 49 on a
\* reply without choices[0].message.content).  mdOk: markdown_to_html
\* returns (line 292, inside the try).  saveOk: save_article_to_file.
BeginItemHot ==
  /\ pc = "item" /\ mode = "hot"
  /\ UNCHANGED notOrch
  /\ IF idx > Len(queue)
       THEN /\ Finish("returned")
            /\ UNCHANGED <<idx, itemv, loopHist, coverFiles>>
       ELSE /\ visited' = visited \cup {idx}
            /\ IF queue[idx].title = None \/ queue[idx].url = None
                 THEN /\ NextItem
                      /\ UNCHANGED <<drafted, exhausted>>
                 ELSE \E gen \in {"ok", "empty", "raises"}, saveOk \in BOOLEAN :
                        CASE gen = "raises" ->
                               /\ Finish("raised")
                               /\ UNCHANGED <<idx, itemv, drafted, exhausted,
                                              coverFiles>>
                          [] gen = "empty" ->
                               /\ NextItem
                               /\ UNCHANGED <<drafted, exhausted>>
                          [] gen = "ok" /\ publisher ->
                               \E mdOk \in BOOLEAN :
                                 IF mdOk
                                   THEN EnterPublishBranch
                                   ELSE /\ Raise("markdown")
                                        /\ UNCHANGED <<idx, attempt, cover_path,
                                             cover_generated, steps, pubCover,
                                             uploads, noCoverTried, drafted,
                                             exhausted, coverFiles>>
                          [] gen = "ok" /\ ~publisher ->
                               /\ drafted' = drafted \cup {idx}
                               /\ exhausted' = exhausted
                               /\ IF saveOk
                                    THEN NextItem
                                    ELSE /\ Finish("raised")
                                         /\ UNCHANGED <<idx, itemv, coverFiles>>
  /\ UNCHANGED <<config, recordFile, run, prevPublished, loopv, pubHist>>

\* publish_directory, lines 546-556: one file up to the cover loop.
BeginItemDir ==
  /\ pc = "item" /\ mode = "dir"
  /\ UNCHANGED notOrch
  /\ IF idx > Len(queue)
       THEN /\ Finish("returned")
            /\ UNCHANGED <<idx, itemv, loopHist, coverFiles>>
       ELSE /\ visited' = visited \cup {idx}
            /\ IF queue[idx].title = None
                 THEN /\ NextItem
                      /\ UNCHANGED <<drafted, exhausted>>
                 ELSE EnterPublishBranch
  /\ UNCHANGED <<config, recordFile, run, prevPublished, loopv, pubHist>>

\* Mutant of RetryNext: no break on success.
RetryNextNoBreak(ok, n) ==
  IF n >= max_retries THEN "covercheck" ELSE "cover"

\* The cover loop after a call of generate_cover_image, the n-th of the
\* item (ai_analyzer.py 316-327, publisher.py 574-585): break on success,
\* retry while n < max_retries, else fall out of the loop.
RetryNext(ok, n) ==
  IF ok \/ n >= max_retries THEN "covercheck" ELSE "cover"

\* One pass of the cover loop (ai_analyzer.py 299-327, publisher.py
\* 559-585): ok is whether generate_cover_image returned a path.
CoverAttempt ==
  /\ pc = "cover"
  /\ UNCHANGED notOrch
  /\ \E ok \in BOOLEAN :
       /\ attempt' = attempt + 1
       /\ cover_path' = IF ok THEN <<idx, attempt + 1>> ELSE cover_path
       /\ cover_generated' = ok
       /\ coverFiles' = IF ok THEN coverFiles \cup {<<idx, attempt + 1>>}
                        ELSE coverFiles
       /\ Goto(RetryNext(ok, attempt + 1))
  /\ UNCHANGED <<config, recordFile, run, prevPublished, loopv, idx, steps,
                 pubCover, uploads, noCoverTried, raisedAt, hist>>

\* Mutant of CoverCheck: the item is published without a generated cover.
CoverCheckPublishAnyway ==
  /\ pc = "covercheck"
  /\ UNCHANGED notOrch
  /\ Goto("publish")
  /\ UNCHANGED <<config, files, run, prevPublished, loopv, idx, itemv, hist>>

\* ai_analyzer.py 329-332, publisher.py 587-590: skip the item when no
\* cover was generated.
CoverCheck ==
  /\ pc = "covercheck"
  /\ UNCHANGED notOrch
  /\ IF ~cover_generated
       THEN /\ exhausted' = exhausted \cup {idx}
            /\ NextItem
       ELSE /\ Goto("publish")
            /\ UNCHANGED <<idx, itemv, exhausted, coverFiles>>
  /\ UNCHANGED <<config, recordFile, run, prevPublished, loopv, visited,
                 drafted, pubHist>>

----------------------------------------------------------------------------
\* ToutiaoPublisher.publish, step by step.  A step that raises leaves
\* publish() for the except clause of the caller.

\* Both callers pass use_cover=True (ai_analyzer.py:336, publisher.py:594).
use_cover == TRUE

\* The statement after publish() in the caller (ai_analyzer.py 338-342,
\* publisher.py 596-598).
AfterPublish(m) == IF m = "hot" THEN "record" ELSE "cleanup"

\* Mutant of PublishCall: _submit runs before the title and the content
\* are filled.
PublishCallSubmitFirst ==
  /\ pc = "publish"
  /\ UNCHANGED notOrch
  /\ pubCalled' = pubCalled \cup {idx}
  /\ pubCover' = cover_path
  /\ slept' = FALSE
  /\ Goto("pub_preview")
  /\ UNCHANGED <<config, files, run, prevPublished, loopv, idx, attempt,
                 cover_path, cover_generated, steps, uploads, noCoverTried,
                 raisedAt, loopHist, publishedOK, recorded, previewMissing>>

\* Lines 335 and 280-286: the call, the driver check, driver.get.
PublishCall ==
  /\ pc = "publish"
  /\ UNCHANGED notOrch
  /\ pubCalled' = pubCalled \cup {idx}
  /\ pubCover' = cover_path
  /\ slept' = FALSE
  /\ \E navOk \in BOOLEAN :
       IF navOk THEN Goto("pub_title") /\ UNCHANGED raisedAt
                ELSE Raise("navigate")
  /\ UNCHANGED <<config, files, run, prevPublished, loopv, idx, attempt,
                 cover_path, cover_generated, steps, uploads, noCoverTried,
                 loopHist, publishedOK, recorded, previewMissing>>

\* _fill_title, lines 297-310: wait.until raises when the input is absent.
FillTitle ==
  /\ pc = "pub_title"
  /\ UNCHANGED notOrch
  /\ \E ok \in BOOLEAN :
       IF ok THEN /\ steps' = Append(steps, "title")
                  /\ Goto("pub_content")
                  /\ UNCHANGED raisedAt
             ELSE /\ Raise("title")
                  /\ UNCHANGED steps
  /\ UNCHANGED <<config, files, run, prevPublished, loopv, idx, attempt,
                 cover_path, cover_generated, pubCover, uploads, noCoverTried,
                 hist>>

\* _fill_content, lines 312-320.
FillContent ==
  /\ pc = "pub_content"
  /\ UNCHANGED notOrch
  /\ \E ok \in BOOLEAN :
       IF ok THEN /\ steps' = Append(steps, "content")
                  /\ Goto("pub_cover")
                  /\ UNCHANGED raisedAt
             ELSE /\ Raise("content")
                  /\ UNCHANGED steps
  /\ UNCHANGED <<config, files, run, prevPublished, loopv, idx, attempt,
                 cover_path, cover_generated, pubCover, uploads, noCoverTried,
                 hist>>

\* _upload_cover_image with _ensure_single_cover_mode and
\* _confirm_cover_upload (lines 322-342, 367-455).  Inputs: m the single-
\* cover option is found, mc its click works, f the file input is found,
\* s send_keys works, c the confirm button is found, cc its click works;
\* a the upload area and its file input are found, s2, c2, cc2 the same
\* for the fallback of lines 412-426.  Result: whether it raises, and how
\* many times the cover path was sent to a file input.
UploadCover(m, mc, f, s, c, cc, a, s2, c2, cc2) ==
  LET fallback == IF a /\ s2 THEN 1 ELSE 0
  IN IF m /\ ~mc THEN [raised |-> TRUE, sent |-> 0]
     ELSE IF f /\ s
       THEN IF c /\ ~cc
              THEN [raised |-> FALSE, sent |-> 1 + fallback]
              ELSE [raised |-> FALSE, sent |-> 1]
       ELSE [raised |-> FALSE, sent |-> fallback]

\* Every result of _upload_cover_image.
UploadResults ==
  { UploadCover(m, mc, f, s, c, cc, a, s2, c2, cc2) :
      m \in BOOLEAN, mc \in BOOLEAN, f \in BOOLEAN, s \in BOOLEAN,
      c \in BOOLEAN, cc \in BOOLEAN, a \in BOOLEAN, s2 \in BOOLEAN,
      c2 \in BOOLEAN, cc2 \in BOOLEAN }

\* _ensure_no_cover_mode, lines 344-365: raises when the click fails.
NoCoverMode(found, clickOk) == found /\ ~clickOk

\* Lines 291-294 of publish(): the cover branch.
CoverStep ==
  /\ pc = "pub_cover"
  /\ UNCHANGED notOrch
  /\ IF pubCover # NoCover /\ use_cover
       THEN \E r \in UploadResults :
              /\ uploads' = r.sent
              /\ IF r.raised
                   THEN Raise("cover_mode_click") /\ UNCHANGED steps
                   ELSE /\ steps' = Append(steps, "cover")
                        /\ Goto("pub_preview")
                        /\ UNCHANGED raisedAt
              /\ UNCHANGED noCoverTried
       ELSE IF ~use_cover
         THEN \E found, clickOk \in BOOLEAN :
                /\ noCoverTried' = TRUE
                /\ IF NoCoverMode(found, clickOk)
                     THEN Raise("no_cover_click")
                     ELSE Goto("pub_preview") /\ UNCHANGED raisedAt
                /\ UNCHANGED <<steps, uploads>>
         ELSE /\ Goto("pub_preview")
              /\ UNCHANGED <<steps, uploads, noCoverTried, raisedAt>>
  /\ UNCHANGED <<config, files, run, prevPublished, loopv, idx, attempt,
                 cover_path, cover_generated, pubCover, hist>>

\* Mutant of PreviewResult: a missing preview button is only a warning,
\* as for the confirm button.
PreviewResultLenient(found, clickOk) ==
  IF found /\ ~clickOk THEN "click_failed" ELSE "clicked"

\* The preview step of _submit (lines 469-484): "missing" when no locator
\* resolves (RuntimeError), "click_failed" when execute_script raises.
PreviewResult(found, clickOk) ==
  IF ~found THEN "missing"
  ELSE IF ~clickOk THEN "click_failed"
  ELSE "clicked"

\* _submit, lines 459-486: the preview-and-publish button.
SubmitPreview ==
  /\ pc = "pub_preview"
  /\ UNCHANGED notOrch
  /\ \E found, clickOk \in BOOLEAN :
       LET r == PreviewResult(found, clickOk)
       IN /\ previewMissing' = IF found THEN previewMissing
                               ELSE previewMissing \cup {idx}
          /\ IF r = "clicked"
               THEN /\ steps' = Append(steps, "preview")
                    /\ Goto("pub_confirm")
                    /\ UNCHANGED raisedAt
               ELSE /\ Raise("preview_" \o r)
                    /\ UNCHANGED steps
  /\ UNCHANGED <<config, files, run, prevPublished, loopv, idx, attempt,
                 cover_path, cover_generated, pubCover, uploads, noCoverTried,
                 loopHist, pubCalled, publishedOK, recorded, slept>>

\* The confirm step of _submit (lines 496-511): "absent" when no locator
\* resolves (a warning), "click_failed" when execute_script raises.
ConfirmResult(found, clickOk) ==
  IF ~found THEN "absent"
  ELSE IF ~clickOk THEN "click_failed"
  ELSE "clicked"

\* _submit, lines 488-514, and the return of publish().
SubmitConfirm ==
  /\ pc = "pub_confirm"
  /\ UNCHANGED notOrch
  /\ \E found, clickOk \in BOOLEAN :
       /\ steps' = Append(steps, "confirm")
       /\ IF ConfirmResult(found, clickOk) = "click_failed"
            THEN /\ Raise("confirm_click_failed")
                 /\ UNCHANGED publishedOK
            ELSE /\ publishedOK' = publishedOK \cup {idx}
                 /\ Goto(AfterPublish(mode))
                 /\ UNCHANGED raisedAt
  /\ UNCHANGED <<config, files, run, prevPublished, loopv, idx, attempt,
                 cover_path, cover_generated, pubCover, uploads, noCoverTried,
                 loopHist, pubCalled, recorded, slept, previewMissing>>

----------------------------------------------------------------------------
\* After publish().

\* The record of the publish() call that ended: kept for the one state
\* after its return or raise, then dropped.
ClearPublish ==
  /\ steps' = <<>> /\ pubCover' = NoCover /\ uploads' = 0
  /\ noCoverTried' = FALSE

\* process_hot_searches, line 342: save_published_record(url).
SaveRecord ==
  /\ pc = "record"
  /\ UNCHANGED notOrch
  /\ \E ioOk, writeOk \in BOOLEAN :
       IF LoadRaises(recordFile, ioOk)
         THEN /\ Raise("save_record")
              /\ UNCHANGED <<recordFile, recorded>>
         ELSE /\ recordFile' =
                   save_published_record(queue[idx].url, recordFile, ioOk, writeOk)
              /\ recorded' = IF writeOk THEN recorded \cup {idx} ELSE recorded
              /\ Goto("cleanup")
              /\ UNCHANGED raisedAt
  /\ ClearPublish
  /\ UNCHANGED <<config, coverFiles, run, prevPublished, loopv, idx, attempt,
                 cover_path, cover_generated, loopHist, pubCalled,
                 publishedOK, slept, previewMissing>>

\* os.remove of the cover (ai_analyzer.py 345-350, publisher.py 598-603
\* and 607-612): removeOk = FALSE is a failed os.remove, which is caught.
RemoveCover(removeOk) ==
  IF cover_path # NoCover /\ cover_path \in coverFiles /\ removeOk
    THEN coverFiles \ {cover_path}
    ELSE coverFiles

DeleteCover ==
  /\ pc = "cleanup"
  /\ UNCHANGED notOrch
  /\ \E removeOk \in BOOLEAN : coverFiles' = RemoveCover(removeOk)
  /\ Goto("sleep")
  /\ ClearPublish
  /\ UNCHANGED <<config, recordFile, run, prevPublished, loopv, idx, attempt,
                 cover_path, cover_generated, raisedAt, hist>>

\* time.sleep(publish_delay), line 357; time.sleep(delay_seconds), line 613.
Sleep ==
  /\ pc = "sleep"
  /\ UNCHANGED notOrch
  /\ slept' = TRUE
  /\ NextItem
  /\ UNCHANGED <<config, recordFile, run, prevPublished, loopv, loopHist,
                 pubCalled, publishedOK, recorded, previewMissing>>

\* except Exception of process_hot_searches, lines 358-359: log, next item.
ExceptHot ==
  /\ pc = "except" /\ mode = "hot"
  /\ UNCHANGED notOrch
  /\ NextItem
  /\ UNCHANGED <<config, recordFile, run, prevPublished, loopv, hist>>

\* except Exception of publish_directory, lines 604-612: delete the cover,
\* then fall to the sleep of line 613.
ExceptDir ==
  /\ pc = "except" /\ mode = "dir"
  /\ UNCHANGED notOrch
  /\ \E removeOk \in BOOLEAN : coverFiles' = RemoveCover(removeOk)
  /\ Goto("sleep")
  /\ ClearPublish
  /\ UNCHANGED <<config, recordFile, run, prevPublished, loopv, idx, attempt,
                 cover_path, cover_generated, raisedAt, hist>>

\* The program (main.py --mode publish, lines 323-337) is invoked again in
\* resume mode over the same batch, after the earlier run returned, raised
\* or was killed where it stood.  Only the files survive.
Restart ==
  /\ mode = "hot" /\ publisher
  /\ UNCHANGED notOrch
  /\ pc # "start"
  /\ run' = "later"
  /\ prevPublished' = prevPublished \cup {queue[i].url : i \in publishedOK}
  /\ skip_published' = TRUE
  /\ coverFiles' = Leftover(coverFiles)
  /\ pc' = "start"
  /\ outcome' = "running"
  /\ Cleared
  /\ UNCHANGED <<mode, batch, limit, cover_mode, publisher, file0,
                 recordFile>>

Next ==
  \/ StartHot \/ StartDir \/ BeginItemHot \/ BeginItemDir
  \/ CoverAttempt \/ CoverCheck
  \/ PublishCall \/ FillTitle \/ FillContent \/ CoverStep
  \/ SubmitPreview \/ SubmitConfirm
  \/ SaveRecord \/ DeleteCover \/ Sleep \/ ExceptHot \/ ExceptDir
  \/ Restart

Spec == Init /\ [][Next]_vars

\* process_hot_searches up to its loop (lines 218-248), over longer batches.
InitStart ==
  /\ InitWith([m \in {"hot", "dir"} |-> BatchesUpTo(m, MaxStartBatch)],
              0..MaxStartBatch)
  /\ mode = "hot"

SpecStart == InitStart /\ [][StartHot]_vars

----------------------------------------------------------------------------
\* The resolver on its own: a publisher is constructed over a cache file,
\* then find_element_with_cache is called any number of times.

\* find_element_with_cache, lines 139-190, with save_selector_cache
\* (129-136): writeOk = FALSE is a failed write of the file, which is
\* caught and logged.
Find ==
  \E key \in Roles, hit \in BOOLEAN, writeOk \in BOOLEAN :
    \E dom \in SUBSET (CacheValues(key) \ {Stale, None}) :
      /\ Probed(selector_cache, key, hit, dom, writeOk)
      /\ IF selector_cache = NotADict
           THEN \* line 152: cache.get raises AttributeError
                /\ lastCall' = [key |-> key, hit |-> FALSE, dom |-> {},
                                found |-> None, probes |-> <<>>,
                                cacheBefore |-> selector_cache,
                                fileBefore |-> cacheFile,
                                wroteCache |-> FALSE, wroteFile |-> FALSE,
                                raised |-> TRUE]
                /\ lastWait' = NoWait
                /\ UNCHANGED <<selector_cache, cacheFile, observed, foreign,
                               notResolver>>
           ELSE LET r == FindResult(selector_cache, key, Candidates(key), hit, dom)
                    after == Record(selector_cache, key, r)
                IN /\ selector_cache' = after
                   /\ cacheFile' = IF r.write /\ writeOk THEN after ELSE cacheFile
                   /\ lastCall' = [key |-> key, hit |-> hit, dom |-> dom,
                                   found |-> r.found, probes |-> r.probes,
                                   cacheBefore |-> selector_cache,
                                   fileBefore |-> cacheFile,
                                   wroteCache |-> r.write,
                                   wroteFile |-> r.write /\ writeOk,
                                   raised |-> FALSE]
                   /\ observed' = observed \cup ({r.found} \ {None})
                   /\ foreign' = IF r.write /\ writeOk THEN {} ELSE foreign
                   /\ lastWait' = NoWait
                   /\ UNCHANGED notResolver

\* ToutiaoPublisher.__init__, lines 194-205: a new publisher loads the
\* cache file.
Construct ==
  /\ lastCall # NoCall
  /\ selector_cache' = load_selector_cache(cacheFile)
  /\ lastCall' = NoCall
  /\ observed' = {}
  /\ foreign' = {}
  /\ lastWait' = NoWait
  /\ UNCHANGED <<cacheFile, notResolver>>

\* The orchestrator at rest.
OrchIdle ==
  /\ mode = "hot" /\ batch = <<>> /\ limit = 0 /\ skip_published = FALSE
  /\ cover_mode = "generate" /\ publisher = TRUE
  /\ recordFile = [kind |-> "missing", urls |-> {}] /\ file0 = {}
  /\ coverFiles = {} /\ run = "first" /\ prevPublished = {}
  /\ pc = "end" /\ outcome = "returned"
  /\ Reset

\* Another invocation of the program records a locator for a key and
\* saves its cache (lines 181-182 there): seen from this publisher, the
\* file gets that entry.  lastCall is kept only while nobody else writes.
OtherInvocationSaves ==
  \E k \in Roles : \E i \in DOMAIN Candidates(k) :
    /\ cacheFile' = [(IF cacheFile \in Caches THEN cacheFile ELSE EmptyCache)
                       EXCEPT ![k] = Candidates(k)[i]]
    /\ cacheFile' # cacheFile
    /\ lastCall' = NoCall
    /\ foreign' = foreign \cup {k}
    /\ lastWait' = NoWait
    /\ UNCHANGED <<selector_cache, observed, notResolver>>

InitResolver ==
  /\ OrchIdle
  /\ SessionIdle
  /\ StoreIdle
  /\ AdderIdle
  /\ ExtractorIdle
  /\ cacheFile \in CacheFiles
  /\ selector_cache = load_selector_cache(cacheFile)
  /\ lastCall = NoCall
  /\ observed = {}
  /\ foreign = {}
  /\ lastWait = NoWait

\* The locator of _fill_title (line 306) and of _fill_content (line 315):
\* one CSS selector each, written in the call.
FieldLocator(field) ==
  IF field = "title" THEN "textarea[placeholder*=title]" ELSE ".ProseMirror"

\* wait.until(EC.presence_of_element_located(locator)), lines 304-308 and
\* 314-316: the one locator is polled until the timeout; found None is
\* the TimeoutException that leaves publish().
WaitUntil(locator, present) ==
  [found |-> IF present THEN locator ELSE None, probes |-> <<locator>>]

\* _fill_title and _fill_content, lines 297-320: the lookup of the field.
\* The selector cache is neither read nor written.  The last lookup is
\* then this one, not a find_element_with_cache call.
FillField ==
  \E field \in {"title", "editor"}, present \in BOOLEAN :
    LET w == WaitUntil(FieldLocator(field), present)
    IN /\ lastWait' = [field |-> field, found |-> w.found,
                        probes |-> w.probes]
       /\ lastCall' = NoCall
       /\ UNCHANGED <<selector_cache, cacheFile, observed, foreign,
                      notResolver>>

NextResolver == Find \/ Construct \/ OtherInvocationSaves \/ FillField

SpecResolver == InitResolver /\ [][NextResolver]_vars

----------------------------------------------------------------------------
\* The browser session of one run: generate_and_publish_articles (main.py
\* 112-142) and publish_directory (publisher.py 535-545) construct a
\* ToutiaoPublisher in a with statement, log in, then run their loop.

\* The program ends: sys.exit(1) of main.py (335-340, 364-369) or an
\* uncaught exception of publisher.py main, else status 0.
EndRun(code) ==
  /\ spc' = "done"
  /\ exitStatus' = code

\* Up to the with statement: crawl (entry "full"), load_cookies and the
\* constructor, lines 194-205.  In publish_directory an empty directory
\* returns before any browser is started (lines 538-540).
SessionStart ==
  /\ spc = "start"
  /\ \E setup \in {"ok", "raises", "nothing"} :
       /\ setup = "nothing" => entry = "dir"
       /\ CASE setup = "ok" -> spc' = "enter" /\ UNCHANGED exitStatus
            [] setup = "raises" -> EndRun(1)
            [] setup = "nothing" -> EndRun(0)
  /\ UNCHANGED <<entry, driver, started, quits, cleanups, logged_in, unauth,
                 failed, publishes, notSession>>

\* __enter__ and _init_browser, lines 207-234.  first, second: the two
\* webdriver.Chrome calls return a driver; timeoutsOk: the two set_*_timeout
\* calls return.  An exception of __enter__ leaves the with statement
\* without __exit__.
InitBrowser ==
  /\ spc = "enter"
  /\ \E first, second, timeoutsOk \in BOOLEAN :
       LET created == first \/ second
       IN /\ driver' = IF created THEN "webdriver" ELSE None
          /\ started' = IF created THEN started + 1 ELSE started
          /\ IF created /\ timeoutsOk
               THEN spc' = "login" /\ UNCHANGED exitStatus
               ELSE EndRun(1)
  /\ UNCHANGED <<entry, quits, cleanups, logged_in, unauth, failed, publishes,
                 notSession>>

\* Mutant of LoginResult: the login page is not looked at.
LoginResultNoCheck(navOk, onLoginPage) ==
  IF ~navOk THEN "raises" ELSE "ok"

\* ensure_login, lines 236-271: raises when the navigation or the cookie
\* injection raises, or when the url holds "login" after the refresh.
LoginResult(navOk, onLoginPage) ==
  IF ~navOk THEN "raises"
  ELSE IF onLoginPage THEN "raises"
  ELSE "ok"

EnsureLogin ==
  /\ spc = "login"
  /\ \E navOk, onLoginPage \in BOOLEAN :
       /\ unauth' = (navOk /\ onLoginPage)
       /\ IF LoginResult(navOk, onLoginPage) = "ok"
            THEN /\ logged_in' = TRUE
                 /\ spc' = "process"
                 /\ UNCHANGED failed
            ELSE /\ failed' = TRUE
                 /\ spc' = "exit"
                 /\ UNCHANGED logged_in
  /\ UNCHANGED <<entry, driver, started, quits, cleanups, publishes,
                 exitStatus, notSession>>

\* A publisher.publish call of the loop (ai_analyzer.py 335, publisher.py
\* 593); what it raises is caught by the loop.
PublishOne ==
  /\ spc = "process"
  /\ publishes < MaxPublishes
  /\ publishes' = publishes + 1
  /\ UNCHANGED <<entry, spc, driver, started, quits, cleanups, logged_in,
                 unauth, failed, exitStatus, notSession>>

\* The loop ends: process_hot_searches or the for loop of publish_directory
\* returns, or raises.
ProcessEnds ==
  /\ spc = "process"
  /\ \E ok \in BOOLEAN : failed' = ~ok
  /\ spc' = "exit"
  /\ UNCHANGED <<entry, driver, started, quits, cleanups, logged_in, unauth,
                 publishes, exitStatus, notSession>>

\* cleanup, lines 516-520: quitOk = FALSE is driver.quit() raising, which
\* skips line 520.
Quit(quitOk) ==
  /\ cleanups' = cleanups + 1
  /\ quits' = IF driver # None THEN quits + 1 ELSE quits
  /\ driver' = IF driver # None /\ quitOk THEN None ELSE driver

\* __exit__, lines 211-212, at the end of the with block, and the end of
\* the program.
ExitSession ==
  /\ spc = "exit"
  /\ \E quitOk \in BOOLEAN :
       /\ Quit(quitOk)
       /\ failed' = (failed \/ ~quitOk)
       /\ EndRun(IF failed \/ ~quitOk THEN 1 ELSE 0)
  /\ UNCHANGED <<entry, started, logged_in, unauth, publishes, notSession>>

\* cleanup called once more on the publisher.
CleanupAgain ==
  /\ spc = "done" /\ cleanups = 1
  /\ \E quitOk \in BOOLEAN : Quit(quitOk)
  /\ UNCHANGED <<entry, spc, started, logged_in, unauth, failed, publishes,
                 exitStatus, notSession>>

InitSession ==
  /\ OrchIdle
  /\ ResolverIdle
  /\ StoreIdle
  /\ AdderIdle
  /\ ExtractorIdle
  /\ entry \in {"publish", "full", "dir"}
  /\ spc = "start" /\ driver = None
  /\ started = 0 /\ quits = 0 /\ cleanups = 0
  /\ logged_in = FALSE /\ unauth = FALSE /\ failed = FALSE
  /\ publishes = 0 /\ exitStatus = None

NextSession ==
  \/ SessionStart \/ InitBrowser \/ EnsureLogin \/ PublishOne
  \/ ProcessEnds \/ ExitSession \/ CleanupAgain

SpecSession == InitSession /\ [][NextSession]_vars

----------------------------------------------------------------------------
\* The published-record file shared by two invocations of the program,
\* each calling save_published_record, the read (line 168) and the write
\* (lines 171-174) being separate steps.

\* Lines 168-169: published = load_published_records(); published.add(url).
\* fresh: nobody has written the file since this call read it.
SaverLoad(i) ==
  /\ savers[i].pc = "idle"
  /\ \E url \in SaverUrls, ioOk \in BOOLEAN :
       savers' = [savers EXCEPT ![i] =
         IF LoadRaises(recordFile, ioOk)
           THEN [pc |-> "raised"]
           ELSE [pc |-> "loaded", url |-> url,
                 published |-> load_published_records(recordFile, ioOk)
                                 \cup {url},
                 readOk |-> ioOk, fresh |-> TRUE]]
  /\ UNCHANGED <<recordFile, notStore>>

\* The other calls after a write: what they read is no longer the file.
Outdated(i, sv) ==
  [j \in Savers |->
     IF j # i /\ sv[j].pc = "loaded" THEN [sv[j] EXCEPT !.fresh = FALSE]
     ELSE sv[j]]

\* Lines 171-176: the write, and the return of the call.
SaverWrite(i) ==
  /\ savers[i].pc = "loaded"
  /\ \E writeOk \in BOOLEAN :
       /\ recordFile' = Written(savers[i].published, recordFile, writeOk)
       /\ savers' =
            [(IF writeOk THEN Outdated(i, savers) ELSE savers) EXCEPT ![i] =
               [pc |-> "done", url |-> savers[i].url, wrote |-> writeOk,
                readOk |-> savers[i].readOk, fresh |-> savers[i].fresh]]
  /\ UNCHANGED notStore

\* The invocation goes on to its next save_published_record call.
SaverAgain(i) ==
  /\ savers[i].pc \in {"done", "raised"}
  /\ savers' = [savers EXCEPT ![i] = Idle]
  /\ UNCHANGED <<recordFile, notStore>>

InitStore ==
  /\ mode = "hot" /\ batch = <<>> /\ limit = 0 /\ skip_published = FALSE
  /\ cover_mode = "generate" /\ publisher = TRUE
  /\ recordFile \in
       [kind : {"array", "object"}, urls : SUBSET Urls]
         \cup {[kind |-> k, urls |-> {}] : k \in {"missing", "invalid", "raising"}}
  /\ file0 = recordFile.urls
  /\ coverFiles = {} /\ run = "first" /\ prevPublished = {}
  /\ pc = "end" /\ outcome = "returned"
  /\ Reset
  /\ ResolverIdle
  /\ SessionIdle
  /\ StoreIdle
  /\ AdderIdle
  /\ ExtractorIdle

NextStore ==
  \E i \in Savers : SaverLoad(i) \/ SaverWrite(i) \/ SaverAgain(i)

SpecStore == InitStore /\ [][NextStore]_vars

----------------------------------------------------------------------------
\* save_published_record on the JSON value of the file: an array, which may
\* hold an identifier more than once, or an object whose "urls" is such an
\* array.

\* The identifiers added: one the file may hold already, one it does not.
AddUrls == {"u1", "u3"}

RecordArrays ==
  [kind : {"array", "object"},
   items : UNION { [1..n -> Urls] : n \in 0..MaxRecords }]

\* json.load, then set(data) or set(data["urls"]) (lines 148-152): the
\* file as load_published_records sees it.
AsRecordFile(value) == [kind |-> value.kind, urls |-> Range(value.items)]

\* list(published), line 173: the elements of the set, each once, in the
\* order the set happens to iterate.
Listings(S) == { q \in [1..Cardinality(S) -> S] : Range(q) = S }

\* Mutant of SavedArrays: the url is appended to the array that was read.
SavedArraysAppended(url, value, ioOk) ==
  { Append(IF ioOk THEN value.items ELSE <<>>, url) }

\* Lines 168-173: the arrays json.dump may write for the call.
SavedArrays(url, value, ioOk) ==
  Listings(load_published_records(AsRecordFile(value), ioOk) \cup {url})

\* save_published_record(url), lines 161-176.  ioOk = FALSE: OSError on
\* the read; writeOk = FALSE: OSError on the write, caught and logged.
AddRecord ==
  /\ Len(addLog) < MaxAdds
  /\ \E url \in AddUrls, ioOk \in BOOLEAN, writeOk \in BOOLEAN :
       \E arr \in SavedArrays(url, recordsArray, ioOk) :
         LET after == IF writeOk THEN [kind |-> "array", items |-> arr]
                                 ELSE recordsArray
         IN /\ recordsArray' = after
            /\ addLog' = Append(addLog, [url |-> url, readOk |-> ioOk,
                                         wrote |-> writeOk,
                                         before |-> recordsArray,
                                         after |-> after])
  /\ UNCHANGED notAdder

InitAdd ==
  /\ OrchIdle
  /\ ResolverIdle
  /\ SessionIdle
  /\ StoreIdle
  /\ ExtractorIdle
  /\ recordsArray \in RecordArrays
  /\ addLog = <<>>

SpecAdd == InitAdd /\ [][AddRecord]_vars

----------------------------------------------------------------------------
\* extract_title_and_content (ai_analyzer.py 63-111).  A text is a sequence
\* of characters; "biao", "ti" and "fc" stand for the two characters of
\* the title marker and its full-width colon, "nl" for the line break.

Marker == <<"biao", "ti", "fc">>
AsciiMarker == <<"biao", "ti", ":">>
Whitespace == {" ", "nl"}

Rep(c, n) == [i \in 1..n |-> c]

\* The lines a generated text is made of here.
Lines ==
  { <<>>, <<"x", " ">>,
    Rep("x", 3), Rep("x", 5), Rep("x", 6), Rep("x", 49), Rep("x", 50),
    Rep("x", 30) \o Rep("y", 30),
    Marker \o <<"x", "y">>,
    <<" ">> \o Marker \o <<" ", "x">>,
    Marker \o <<"x">> \o Marker \o <<"y">>,
    Marker,
    AsciiMarker \o <<"x", "y">>,
    AsciiMarker \o <<"x">> \o AsciiMarker,
    <<"x">> \o Marker }

\* "\n".join(lines), line 109.
RECURSIVE Join(_)
Join(lines) ==
  IF lines = <<>> THEN <<>>
  ELSE IF Len(lines) = 1 THEN lines[1]
  ELSE lines[1] \o <<"nl">> \o Join(Tail(lines))

Texts == { Join(ls) : ls \in UNION { [1..n -> Lines] : n \in 1..MaxLines } }

\* str.strip().
RECURSIVE LStrip(_)
LStrip(s) ==
  IF s # <<>> /\ Head(s) \in Whitespace THEN LStrip(Tail(s)) ELSE s

RECURSIVE RStrip(_)
RStrip(s) ==
  IF s # <<>> /\ s[Len(s)] \in Whitespace
    THEN RStrip(SubSeq(s, 1, Len(s) - 1))
    ELSE s

Strip(s) == RStrip(LStrip(s))

\* str.split("\n"), line 71.
RECURSIVE Split(_)
Split(s) ==
  IF \E i \in DOMAIN s : s[i] = "nl"
    THEN LET i == CHOOSE k \in DOMAIN s :
                    s[k] = "nl" /\ \A j \in 1..(k - 1) : s[j] # "nl"
         IN <<SubSeq(s, 1, i - 1)>> \o Split(SubSeq(s, i + 1, Len(s)))
    ELSE <<s>>

\* str.startswith.
StartsWith(s, p) == Len(p) <= Len(s) /\ SubSeq(s, 1, Len(p)) = p

\* str.replace(p, ""), lines 80 and 84: every occurrence of p is removed.
RECURSIVE Replace(_, _)
Replace(s, p) ==
  IF s = <<>> THEN <<>>
  ELSE IF StartsWith(s, p) THEN Replace(SubSeq(s, Len(p) + 1, Len(s)), p)
  ELSE <<Head(s)>> \o Replace(Tail(s), p)

\* s[:n], line 100.
Take(s, n) == SubSeq(s, 1, IF n < Len(s) THEN n ELSE Len(s))

\* The marker a stripped line begins with, or <<>> (lines 79 and 83).
MarkerOf(line) ==
  IF StartsWith(line, Marker) THEN Marker
  ELSE IF StartsWith(line, AsciiMarker) THEN AsciiMarker
  ELSE <<>>

\* Lines 77-86: the index of the first line that begins with a marker, or 0.
MarkerLine(lines) ==
  IF \E i \in DOMAIN lines : MarkerOf(Strip(lines[i])) # <<>>
    THEN CHOOSE i \in DOMAIN lines :
           /\ MarkerOf(Strip(lines[i])) # <<>>
           /\ \A j \in 1..(i - 1) : MarkerOf(Strip(lines[j])) = <<>>
    ELSE 0

\* Mutant of FirstLineIsTitle: the two lengths are included.
FirstLineIsTitleInclusive(first_line) ==
  Len(first_line) >= 5 /\ Len(first_line) <= 50

\* Line 92: the first line looks like a title.
FirstLineIsTitle(first_line) ==
  Len(first_line) > 5 /\ Len(first_line) < 50

\* Lines 106-107: the leading blank lines are dropped.
RECURSIVE DropBlank(_)
DropBlank(lines) ==
  IF lines # <<>> /\ Strip(lines[1]) = <<>> THEN DropBlank(Tail(lines))
  ELSE lines

\* Lines 104-109: the body that starts after the first start lines.
Body(lines, start) ==
  Strip(Join(DropBlank(SubSeq(lines, start + 1, Len(lines)))))

\* extract_title_and_content: <<>> is the empty string, and also the None
\* that title holds until a branch sets it (both are false at lines 89
\* and 97).
extract_title_and_content(text) ==
  LET lines == Split(Strip(text))
      i == MarkerLine(lines)
      marked == IF i = 0 THEN <<>> ELSE Strip(lines[i])
      t1 == IF i = 0 THEN <<>> ELSE Strip(Replace(marked, MarkerOf(marked)))
      first_line == Strip(lines[1])
      byFirst == t1 = <<>> /\ FirstLineIsTitle(first_line)
      t2 == IF byFirst THEN first_line ELSE t1
      s2 == IF byFirst THEN 1 ELSE i
      cut == t2 = <<>>
      t3 == IF cut THEN Take(Strip(lines[1]), 30) ELSE t2
      s3 == IF cut THEN 0 ELSE s2
  IN [title |-> t3, content |-> Body(lines, s3)]

\* generate_article_draft, lines 130-131: the text is split once.
Extract ==
  /\ extraction = NoExtraction
  /\ extraction' = extract_title_and_content(article_text)
  /\ UNCHANGED <<article_text, notExtractor>>

InitExtract ==
  /\ OrchIdle
  /\ ResolverIdle
  /\ SessionIdle
  /\ StoreIdle
  /\ AdderIdle
  /\ article_text \in Texts
  /\ extraction = NoExtraction

SpecExtract == InitExtract /\ [][Extract]_vars

----------------------------------------------------------------------------
\* Properties.

IsPrefix(p, q) == Len(p) <= Len(q) /\ p = SubSeq(q, 1, Len(p))

\* The urls of the items of this run whose publish() returned normally.
PublishedNow == { queue[i].url : i \in publishedOK }

PubStates ==
  {"pub_title", "pub_content", "pub_cover", "pub_preview", "pub_confirm"}

\* C1: a url is written to the record file only for an item whose
\* publish() has returned normally: never for an item whose text was
\* empty, whose cover generation was exhausted or whose publish raised;
\* and every url the file has gained belongs to such a publish.
C1_RecordOnlyAfterPublish ==
  /\ recorded \subseteq publishedOK
  /\ recorded \cap exhausted = {}
  /\ recorded \cap (visited \ drafted) = {}
  /\ recorded \cap {i \in pubCalled : i \notin publishedOK} = {}
  /\ recordFile.urls \subseteq file0 \cup prevPublished \cup PublishedNow

\* C1 witness: one item recorded after its publish while another item of
\* the run failed to publish.
C1_Witness ==
  /\ recorded # {}
  /\ \E j \in pubCalled : j \notin publishedOK /\ j \notin recorded
  /\ \E i \in recorded : queue[i].url \in recordFile.urls \ file0

\* C2 (as claimed): a later run in resume mode never calls publish() for
\* a url whose publish returned normally in an earlier run.
C2_NeverPublishedAgain ==
  run = "later" => \A i \in pubCalled : queue[i].url \notin prevPublished

\* C3 (as claimed): with a publisher, process_hot_searches raises only
\* before its loop: no failure of an item stops it.
C3_ItemFailureNeverStopsLoop ==
  (mode = "hot" /\ publisher /\ outcome = "raised") => visited = {}

\* C4: the cover loop calls the generator at most max_retries times, makes
\* no call after a call that succeeded, and gives up only after
\* max_retries failed calls, in both orchestrators.
C4_BoundedCoverRetry ==
  /\ attempt <= max_retries
  /\ cover_generated => cover_path = <<idx, attempt>>
  /\ pc = "cover" => ~cover_generated /\ attempt < max_retries
  /\ (pc = "covercheck" /\ ~cover_generated) =>
       attempt = max_retries /\ cover_path = NoCover

\* C4 witness: publish_directory gives up after the third failed call.
C4_Witness ==
  /\ mode = "dir" /\ pc = "covercheck"
  /\ ~cover_generated /\ attempt = max_retries

\* C5: with cover generation requested, publish() is attempted exactly
\* for the items one of whose generator calls succeeded, with the path
\* that call returned; an exhausted item is neither published nor
\* recorded and the loop moves on.
C5_PublishIffCover ==
  cover_mode = "generate" =>
    /\ pubCalled \cap exhausted = {}
    /\ recorded \cap exhausted = {}
    /\ \A i \in exhausted : idx > i
    /\ \A i \in drafted :
         (publisher /\ i < idx) => (i \in pubCalled \/ i \in exhausted)
    /\ pc \in PubStates =>
         /\ cover_generated
         /\ attempt \in 1..max_retries
         /\ pubCover = <<idx, attempt>>

\* C5 witness: two failed calls, the third succeeds, publish() runs with
\* the third path, after an earlier item was skipped as exhausted.
C5_Witness ==
  /\ cover_mode = "generate" /\ mode = "hot"
  /\ pc = "pub_title" /\ pubCover = <<idx, max_retries>>
  /\ exhausted # {}

\* The indices of b whose url is not in recs, and the place of j among them.
Kept(b, recs) == { j \in 1..Len(b) : b[j].url \notin recs }
Rank(j, K) == Cardinality({ k \in K : k <= j })

\* C6: in resume mode with a non-empty record set the filtered queue is
\* the batch without the items whose url is in the set, in input order;
\* that is the queue the loop iterates, cut to the limit when there is one.
C6_ResumeFilterExact ==
  (mode = "hot" /\ pc # "start" /\ skip_published /\ published_urls # {}) =>
    LET K == Kept(batch, published_urls)
    IN /\ Len(filtered) = Cardinality(K)
       /\ \A j \in K : filtered[Rank(j, K)] = batch[j]
       /\ limit = 0 => queue = filtered
       /\ limit # 0 =>
            /\ IsPrefix(queue, filtered)
            /\ Len(queue) = IF limit < Len(filtered) THEN limit
                                                     ELSE Len(filtered)

\* C6 witness: an item is removed from between two items that stay.
C6_Witness ==
  /\ pc # "start" /\ skip_published /\ published_urls # {}
  /\ Len(batch) = 3 /\ Len(filtered) = 2
  /\ batch[2].url \in published_urls
  /\ filtered[1] # filtered[2]

\* The steps of a publish() that returns, for its cover argument.
ExpectedSteps(cover) ==
  IF cover # NoCover /\ use_cover
    THEN <<"title", "content", "cover", "preview", "confirm">>
    ELSE <<"title", "content", "preview", "confirm">>

\* C7: the steps of a publish() call happen in the order title, content,
\* cover (with a cover), preview, confirm, and a call that returns has
\* gone through all of them.
C7_StepOrder ==
  /\ IsPrefix(steps, ExpectedSteps(pubCover))
  /\ (pc = AfterPublish(mode) /\ pc # "cleanup") =>
       steps = ExpectedSteps(pubCover)
  /\ (mode = "dir" /\ pc = "cleanup") => steps = ExpectedSteps(pubCover)
  /\ pc = "pub_confirm" => IsPrefix(<<"title", "content">>, steps)

\* C7 witness: a publish() with a cover has returned.
C7_Witness ==
  /\ pc = "record"
  /\ steps = <<"title", "content", "cover", "preview", "confirm">>

\* C8: when no locator resolves the preview button, publish() raises:
\* the confirm step is not attempted, the caller is in its except clause
\* and the item is never recorded.
C8_PreviewMissingIsFatal ==
  /\ previewMissing \cap publishedOK = {}
  /\ previewMissing \cap recorded = {}
  /\ raisedAt = "preview_missing" =>
       /\ idx \in previewMissing
       /\ "confirm" \notin Range(steps)
       /\ pc \in {"except", "sleep"}
  /\ (idx \in previewMissing /\ pc # "end") => raisedAt = "preview_missing"

\* C8 witness: process_hot_searches in its except clause after a missing
\* preview button.
C8_Witness ==
  /\ mode = "hot" /\ pc = "except" /\ raisedAt = "preview_missing"
  /\ steps = <<"title", "content", "cover">>

\* C9 (as claimed): publish() never raises out of an optional step: the
\* cover-mode switch, the cover upload and its confirmation, the confirm-
\* publish click.
C9_OptionalStepsNeverRaise ==
  raisedAt \notin {"cover_mode_click", "no_cover_click", "confirm_click_failed"}

\* C10: when the cache holds, for the key, a locator that is among the
\* candidates and that locator resolves, find_element_with_cache returns
\* it after probing it alone, and writes neither the cache nor the file.
C10_CacheHitIsSilent ==
  (/\ lastCall # NoCall
   /\ lastCall.hit
   /\ \E i \in DOMAIN Candidates(lastCall.key) :
        Candidates(lastCall.key)[i] = lastCall.cacheBefore[lastCall.key]) =>
    /\ lastCall.found = lastCall.cacheBefore[lastCall.key]
    /\ lastCall.probes = <<lastCall.cacheBefore[lastCall.key]>>
    /\ ~lastCall.wroteCache /\ ~lastCall.wroteFile
    /\ selector_cache = lastCall.cacheBefore
    /\ cacheFile = lastCall.fileBefore

\* C10 witness: a hit on the second candidate, with a file that differs
\* from the cache.
C10_Witness ==
  /\ lastCall # NoCall /\ lastCall.hit
  /\ lastCall.key = "preview_publish_btn"
  /\ lastCall.cacheBefore["preview_publish_btn"] = "p2"
  /\ lastCall.found = "p2"
  /\ cacheFile # selector_cache

\* The place of a locator in the candidate list of a key, 0 when absent.
Place(key, loc) ==
  IF \E i \in DOMAIN Candidates(key) : Candidates(key)[i] = loc
    THEN CHOOSE i \in DOMAIN Candidates(key) : Candidates(key)[i] = loc
    ELSE 0

\* The last call found a cached candidate that did not resolve, while
\* some candidate resolved in the loop.
StaleThenFound ==
  /\ lastCall # NoCall
  /\ Place(lastCall.key, lastCall.cacheBefore[lastCall.key]) # 0
  /\ ~lastCall.hit
  /\ lastCall.dom # {}

\* The last call returned the first candidate, in list order, that resolved.
FoundIsFirst ==
  /\ lastCall.found \in lastCall.dom
  /\ \A loc \in lastCall.dom :
       Place(lastCall.key, lastCall.found) <= Place(lastCall.key, loc)

C12_CacheOnlyObserved ==
  \A k \in Roles : selector_cache[k] # None => selector_cache[k] \in observed

\* C12 (amended): every locator that find_element_with_cache puts in the
\* cache has been observed to resolve since the publisher was constructed;
\* the entries loaded at construction are taken from the file as they are.
C12_StoredWasObserved ==
  [][\A k \in Roles :
       (lastCall' # NoCall /\ selector_cache'[k] # selector_cache[k]) =>
         selector_cache'[k] \in observed']_vars

\* C12 witness: a call has recorded a locator it saw resolve, next to an
\* entry loaded from the file that has not been probed.
C12_Witness ==
  /\ lastCall # NoCall /\ lastCall.wroteCache
  /\ selector_cache[lastCall.key] \in observed
  /\ \E k \in Roles \ {lastCall.key} :
       selector_cache[k] # None /\ selector_cache[k] \notin observed

\* C13 (as claimed): when the orchestrator moves on to the next item, or
\* returns, no cover file of the items it has processed is left on disk.
C13_NoCoverOutlivesItem ==
  (run = "first" /\ (pc = "item" \/ (pc = "end" /\ outcome = "returned"))) =>
    coverFiles = {}

\* C14 (as claimed): a run that started a browser has, when it ends,
\* started one browser and quit it once, whatever made it end; no driver
\* is referenced after cleanup and a second cleanup quits nothing.
C14_OneSessionQuitOnce ==
  /\ started <= 1
  /\ (spc = "done" /\ started > 0) => quits >= 1
  /\ quits <= 1
  /\ cleanups >= 1 => driver = None

\* C15: when the page is still the login page after the cookies were set,
\* ensure_login raises without marking the session logged in, the loop is
\* never entered, the browser is quit and the exit status is not zero; and
\* no publish happens before ensure_login has returned.
C15_UnauthenticatedIsFatal ==
  /\ unauth => /\ ~logged_in /\ failed
               /\ publishes = 0
               /\ spc \in {"exit", "done"}
               /\ spc = "done" => quits >= 1 /\ exitStatus = 1
  /\ publishes > 0 => logged_in
  /\ spc = "process" => logged_in /\ driver # None

\* C15 witness: a run ended by the login page.
C15_Witness ==
  /\ unauth /\ spc = "done" /\ exitStatus = 1
  /\ started = 1 /\ quits = 1 /\ driver = None

\* C16 (as claimed): whatever the record file holds, neither the resume
\* load nor save_published_record makes process_hot_searches raise or an
\* item fail.
C16_RecordFileNeverFatal ==
  /\ (mode = "hot" /\ pc = "end" /\ visited = {}) => outcome = "returned"
  /\ raisedAt # "save_record"

\* C18 (as claimed): when two invocations have each added a different
\* url, their reads and writes having succeeded in any interleaving, both
\* urls and all the urls that were in the file are in the file.
C18_ConcurrentAddsKept ==
  (/\ \A i \in Savers :
        savers[i].pc = "done" /\ savers[i].wrote /\ savers[i].readOk
   /\ savers[1].url # savers[2].url) =>
    /\ {savers[1].url, savers[2].url} \subseteq recordFile.urls
    /\ file0 \subseteq recordFile.urls

\* C20 (as claimed): a save_published_record call whose write is the
\* first since it read the file, its read having failed or not, leaves in
\* the file every url that was in it.
C20_RecordSetOnlyGrows ==
  [][\A i \in Savers :
       (savers[i].pc = "loaded" /\ savers[i].fresh /\ savers'[i].pc = "done")
         => recordFile.urls \subseteq recordFile'.urls]_vars

\* C17 (as claimed): whatever the cache file held when the publisher was
\* constructed, no find_element_with_cache call raises.
C17_MalformedCacheNeverFatal ==
  lastCall # NoCall => ~lastCall.raised

\* C19 (as claimed): when a call saves the cache, the entries for other
\* keys that other invocations have written to the file since this
\* publisher was constructed are still in the file.
C19_SaveKeepsForeignEntries ==
  [][(lastCall' # NoCall /\ lastCall'.wroteFile) =>
       \A k \in foreign \ {lastCall'.key} : cacheFile'[k] = cacheFile[k]]_vars

\* C22 (as claimed): a publish() call of an orchestrator run with cover
\* mode "none" has tried the switch to the no-cover mode, after the content
\* and before the preview click, and has sent no cover to a file input.
C22_NoCoverModeAttempted ==
  (cover_mode = "none" /\ pc \in {"pub_preview", "pub_confirm"}) =>
    /\ noCoverTried
    /\ uploads = 0

\* C24 (as claimed): at every item boundary of process_hot_searches, and
\* when it has returned, the url of every item whose publish() returned
\* normally in this run is in the record file; when every item of the
\* queue was published the file holds what it held at the start of the run
\* and those urls.
C24_PublishedIsPersisted ==
  (mode = "hot" /\ publisher /\ (pc = "item" \/ outcome = "returned")) =>
    /\ PublishedNow \subseteq recordFile.urls
    /\ (outcome = "returned" /\ run = "first"
          /\ publishedOK = 1..Len(queue)) =>
         recordFile.urls = file0 \cup PublishedNow

\* C25 (as claimed): in process_hot_searches, when publish() is about to
\* be called and it was called before in this run, the publish delay has
\* been slept since that call, whether it returned or raised.
C25_SleepBetweenPublishes ==
  (mode = "hot" /\ pc = "publish" /\ pubCalled # {}) => slept

\* C26 (as claimed): in one run of process_hot_searches in resume mode,
\* publish() is called for at most one item of each url.
C26_OnePublishPerUrl ==
  (mode = "hot" /\ skip_published) =>
    \A i, j \in pubCalled : queue[i].url = queue[j].url => i = j

\* C28 (as claimed): in one publish() call the cover path is sent to a
\* file input at most once.
C28_CoverSentAtMostOnce ==
  uploads <= 1

\* C27: in resume mode with a limit n, the queue the loop iterates is made
\* of the first n items of the batch whose url is not in the loaded record
\* set, in input order (all of them when fewer than n remain): the limit
\* is applied after the filter.
C27_LimitAfterFilter ==
  (mode = "hot" /\ pc # "start" /\ outcome # "raised" /\ skip_published
     /\ limit # 0) =>
    LET K == Kept(batch, published_urls)
        n == IF limit < Cardinality(K) THEN limit ELSE Cardinality(K)
    IN /\ Len(queue) = n
       /\ \A j \in K : Rank(j, K) <= n => queue[Rank(j, K)] = batch[j]

\* C27 witness: with limit 2 the first of three items is already
\* published and the loop gets the second and the third, where the first
\* two of the batch hold only one unpublished item.
C27_Witness ==
  /\ mode = "hot" /\ pc = "item" /\ skip_published /\ limit = 2
  /\ Len(batch) = 3
  /\ batch[1].url \in published_urls
  /\ batch[2].url \notin published_urls
  /\ batch[3].url \notin published_urls
  /\ queue = <<batch[2], batch[3]>>

\* C23 (as claimed): when the locator first tried for the title input or
\* the editor does not resolve, a further candidate is tried; a locator
\* that resolves is in the selector cache afterwards.
C23_FieldsUseResolver ==
  lastWait # NoWait =>
    /\ lastWait.found = None => Len(lastWait.probes) > 1
    /\ lastWait.found # None =>
         \E k \in DOMAIN selector_cache : selector_cache[k] = lastWait.found

\* The number of places of q that hold x.
Count(q, x) == Cardinality({ i \in DOMAIN q : q[i] = x })

\* C21: when save_published_record is called twice in a row with the same
\* url on a file in array or object form, the first call having written
\* and the second having read the file, the file holds after the second
\* call the set it held after the first, as an array in which the url
\* occurs exactly once.
C21_AddIsIdempotent ==
  \A n \in 1..(Len(addLog) - 1) :
    LET a == addLog[n]
        b == addLog[n + 1]
    IN (a.url = b.url /\ a.wrote /\ b.readOk) =>
         /\ a.after.kind = "array" /\ b.after.kind = "array"
         /\ Range(b.after.items) = Range(a.after.items)
         /\ Count(a.after.items, a.url) = 1
         /\ Count(b.after.items, b.url) = 1

\* C21 witness: a file in object form that holds u1 twice; u1 is added
\* twice and the array written holds it once, with the other url.
C21_Witness ==
  /\ Len(addLog) = 2
  /\ addLog[1].before = [kind |-> "object", items |-> <<"u1", "u1">>]
  /\ addLog[1].url = "u1" /\ addLog[2].url = "u1"
  /\ addLog[1].wrote /\ addLog[1].readOk
  /\ addLog[2].wrote /\ addLog[2].readOk
  /\ recordsArray = [kind |-> "array", items |-> <<"u1">>]

\* The lines of the generated text, as extract_title_and_content splits it.
TextLines == Split(Strip(article_text))

\* C29 (as claimed): when a line of the text begins with the title marker,
\* the title is the trimmed rest of the first such line after its leading
\* marker, later occurrences of the marker kept, and the body is made of
\* the lines after it, leading blank lines dropped.
C29_MarkerBranch ==
  (extraction # NoExtraction /\ MarkerLine(TextLines) # 0) =>
    LET i == MarkerLine(TextLines)
        line == Strip(TextLines[i])
    IN /\ extraction.title = Strip(SubSeq(line, Len(Marker) + 1, Len(line)))
       /\ extraction.content = Body(TextLines, i)

\* C30: when no line begins with the marker, a first line of more than 5
\* and fewer than 50 characters is the title and the body starts after it;
\* otherwise the title is made of the first 30 characters of the first
\* line (the whole line when shorter) and the body begins with the whole
\* first line.
C30_FallbackBranch ==
  (extraction # NoExtraction /\ MarkerLine(TextLines) = 0) =>
    LET first == Strip(TextLines[1])
    IN IF Len(first) > 5 /\ Len(first) < 50
         THEN /\ extraction.title = first
              /\ extraction.content = Body(TextLines, 1)
         ELSE /\ extraction.title = Take(first, 30)
              /\ Len(extraction.title) = (IF Len(first) < 30 THEN Len(first)
                                                              ELSE 30)
              /\ StartsWith(extraction.content, first)

\* C30 witness: a first line of 60 characters gives a title of its first
\* 30 characters and a body that begins with the 60.
C30_Witness ==
  /\ extraction # NoExtraction
  /\ MarkerLine(TextLines) = 0
  /\ Len(TextLines) = 2
  /\ TextLines[1] = Rep("x", 30) \o Rep("y", 30)
  /\ extraction.title = Rep("x", 30)
  /\ extraction.content = article_text


====
